---- MODULE Spec2Model ----
(***************************************************************************)
(* Model of postfix_log_parser.py: the single-line parser                  *)
(* (PostfixLogParser) and the transaction correlator (PostfixLogProcessor). *)
(*                                                                         *)
(* A log line is modelled as the token structure the extraction pattern    *)
(* sees: a timestamp token, a hostname, an optional process tag, a queue   *)
(* id and a sequence of detail tokens.  Optional values (Python None) are  *)
(* sequences of length 0 or 1.                                             *)
(***************************************************************************)
EXTENDS Integers, Sequences, FiniteSets, TLC

(***************************************************************************)
(* Bounds of the model.                                                    *)
(***************************************************************************)
MaxMsgs == 2        \* longest delivery-attempt list of one entry
MaxRemoved == 2     \* "removed" lines processed per queue id

CurrentYear == 2026 \* datetime.now().year

None == << >>
Some(x) == << x >>

(***************************************************************************)
(* Timestamp tokens.  form is the shape the token has, valid tells whether *)
(* strptime accepts its digits (a token such as "Feb 30 10:00:00" matches  *)
(* TIME_REGEXP and is rejected by strptime).                               *)
(***************************************************************************)
TIME_FORMAT_SYSLOG_PLUS_YEAR == "%Y %b %d %H:%M:%S"
TIME_FORMAT_ISO8601 == "%Y-%m-%dT%H:%M:%S.%f%z"
TIME_FORMAT_ISO8601_ALT == "%Y-%m-%dT%H:%M:%S%z"

TimeTok(form, year, clock, valid) ==
    [form |-> form, year |-> year, clock |-> clock, valid |-> valid]

EmptyTok == TimeTok("", 0, 0, FALSE)

\* datetime.strptime(time_str, fmt): Some(datetime) or None for ValueError
strptime(tok, fmt) ==
    IF tok.valid /\ tok.form = fmt
    THEN Some([year |-> tok.year, clock |-> tok.clock])
    ELSE None

\* variant: the token is left without the year
PrependYear_Bare(tok) == tok

\* str(current_year) + ' ' + time_str
PrependYear(tok) ==
    IF tok.form = "%b %d %H:%M:%S"
    THEN [tok EXCEPT !.form = TIME_FORMAT_SYSLOG_PLUS_YEAR, !.year = CurrentYear]
    ELSE [tok EXCEPT !.form = "other"]

parse_time(time_str) ==
    IF time_str = EmptyTok THEN None
    ELSE IF strptime(time_str, TIME_FORMAT_ISO8601) # None
         THEN strptime(time_str, TIME_FORMAT_ISO8601)
    ELSE IF strptime(time_str, TIME_FORMAT_ISO8601_ALT) # None
         THEN strptime(time_str, TIME_FORMAT_ISO8601_ALT)
    ELSE strptime(PrependYear(time_str), TIME_FORMAT_SYSLOG_PLUS_YEAR)

(***************************************************************************)
(* Detail tokens and the extraction pattern.                               *)
(***************************************************************************)
Tok(tag, a, b) == [tag |-> tag, a |-> a, b |-> b]
Client(h, ip) == Tok("client", h, ip)
MessageId(m) == Tok("message-id", m, "")
From(a) == Tok("from", a, "")
To(a) == Tok("to", a, "")
Status(s) == Tok("status", s, "")
Text(s) == Tok("text", s, "")

HasTag(d, i, t) == i <= Len(d) /\ d[i].tag = t

\* index of the last status= token after position i, 0 when there is none
LastStatus(d, i) ==
    LET S == { j \in (i + 1)..Len(d) : d[j].tag = "status" /\ d[j].a # "" }
    IN IF S = {} THEN 0 ELSE CHOOSE j \in S : \A k \in S : k <= j

\* MESSAGE_DETAILS_REGEXP: the optional groups are tried left to right, each
\* at the position the previous one stopped; the outer group takes it all.
\* AtClient .. AtTo: does the group match at position p; Skip: where the
\* next group is tried
AtClient(d, p) == HasTag(d, p, "client") /\ d[p].a # "" /\ d[p].b # ""
AtMessageId(d, p) == HasTag(d, p, "message-id")
AtFrom(d, p) == HasTag(d, p, "from") /\ d[p].a # ""
AtTo(d, p) == HasTag(d, p, "to") /\ d[p].a # "" /\ LastStatus(d, p) # 0
Skip(hit, p) == IF hit THEN p + 1 ELSE p

Groups(d, p1, p2, p3) ==
    [ g4  |-> Some(d),
      g5  |-> IF AtClient(d, 1) THEN Some(d[1].a) ELSE None,
      g6  |-> IF AtClient(d, 1) THEN Some(d[1].b) ELSE None,
      g7  |-> IF AtMessageId(d, p1) THEN Some(d[p1].a) ELSE None,
      g8  |-> IF AtFrom(d, p2) THEN Some(d[p2].a) ELSE None,
      g9  |-> IF AtTo(d, p3) THEN Some(d[p3].a) ELSE None,
      g10 |-> IF AtTo(d, p3) THEN Some(d[LastStatus(d, p3)].a) ELSE None ]

AfterClient(d) == Skip(AtClient(d, 1), 1)
AfterMessageId(d, p1) == Skip(AtMessageId(d, p1), p1)
AfterFrom(d, p2) == Skip(AtFrom(d, p2), p2)

GroupsFrom(d, p1, p2) == Groups(d, p1, p2, AfterFrom(d, p2))
GroupsMessageId(d, p1) == GroupsFrom(d, p1, AfterMessageId(d, p1))
MESSAGE_DETAILS_REGEXP(d) == GroupsMessageId(d, AfterClient(d))

\* variant: a group that did not participate gives a placeholder
OrEmpty_Placeholder(g) == IF g = None THEN "-" ELSE g[1]

\* groups[i] or ""
OrEmpty(g) == IF g = None \/ g = Some("") THEN "" ELSE g[1]

\* variant: the group takes the angle brackets with it
IfElseEmpty_Brackets(g) == IF g = None THEN "" ELSE "<" \o g[1] \o ">"

\* groups[7] if groups[7] else ""
IfElseEmpty(g) == IF g # None /\ g # Some("") THEN g[1] ELSE ""

\* groups[4] or "": the raw tail is the detail text itself
OrEmptyText(g) == IF g = None \/ g = Some(<< >>) THEN << >> ELSE g[1]

(***************************************************************************)
(* Lines.  shape "blank" is a line that is empty after strip(), "nomatch"  *)
(* one the compiled pattern rejects, "log" one it accepts.                 *)
(***************************************************************************)
Line(t, h, p, q, d) ==
    [shape |-> "log", time |-> t, hostname |-> h, process |-> p,
     queue_id |-> q, details |-> d]

BlankLine == [Line(EmptyTok, "", None, "", << >>) EXCEPT !.shape = "blank"]
NoMatchLine == [Line(EmptyTok, "", None, "", <<Text("garbage")>>) EXCEPT !.shape = "nomatch"]

LogFormat(time, hostname, process, queue_id, messages, client_hostname, client_ip, message_id, from_addr, to_addr, status) ==
    [time |-> time, hostname |-> hostname, process |-> process,
     queue_id |-> queue_id, messages |-> messages,
     client_hostname |-> client_hostname, client_ip |-> client_ip,
     message_id |-> message_id, from_addr |-> from_addr,
     to_addr |-> to_addr, status |-> status]

\* the LogFormat built from the groups of a match
FromGroups(line, g) ==
    LogFormat(IF line.time # EmptyTok THEN parse_time(line.time) ELSE None,
              line.hostname,
              OrEmpty(line.process),
              line.queue_id,
              OrEmptyText(g.g4),
              OrEmpty(g.g5),
              OrEmpty(g.g6),
              IfElseEmpty(g.g7),
              OrEmpty(g.g8),
              OrEmpty(g.g9),
              OrEmpty(g.g10))

\* variant: a line whose timestamp does not resolve is rejected
parse_line_Strict(line) ==
    IF line.shape # "log" \/ parse_time(line.time) = None THEN None
    ELSE Some(FromGroups(line, MESSAGE_DETAILS_REGEXP(line.details)))

\* PostfixLogParser.parse_line: Some(LogFormat) or None
parse_line(line) ==
    IF line.shape = "blank" THEN None
    ELSE IF line.shape # "log" THEN None
    ELSE Some(FromGroups(line, MESSAGE_DETAILS_REGEXP(line.details)))

(***************************************************************************)
(* Records of the correlator.                                              *)
(***************************************************************************)
\* Message(time, to, status, message)
Message(time, to, status, message) ==
    [time |-> time, to |-> to, status |-> status, message |-> message]

\* variant: PostfixLogEntry(), the queue id at its default as well
PostfixLogEntry_NoId(queue_id) ==
    [time |-> None, hostname |-> "", process |-> "", queue_id |-> "",
     client_hostname |-> "", client_ip |-> "", message_id |-> "",
     from_addr |-> "", messages |-> << >>]

\* PostfixLogEntry(queue_id=queue_id): every other field at its default,
\* messages a fresh empty list (__post_init__)
PostfixLogEntry(queue_id) ==
    [time |-> None, hostname |-> "", process |-> "", queue_id |-> queue_id,
     client_hostname |-> "", client_ip |-> "", message_id |-> "",
     from_addr |-> "", messages |-> << >>]

(***************************************************************************)
(* A Python dict: key/value pairs in insertion order.                      *)
(***************************************************************************)
Keys(m) == { m[i].k : i \in DOMAIN m }
Get(m, k) == m[CHOOSE i \in DOMAIN m : m[i].k = k].v
\* variant: a store always adds a pair
Put_Append(m, k, v) == Append(m, [k |-> k, v |-> v])

Put(m, k, v) ==
    IF k \in Keys(m)
    THEN [i \in DOMAIN m |-> IF m[i].k = k THEN [k |-> k, v |-> v] ELSE m[i]]
    ELSE Append(m, [k |-> k, v |-> v])
\* variants of pop: one that leaves the key in place, one that empties the dict
Pop_Keep(m, k) == m
Pop_Clear(m, k) == << >>
\* variant: the key stays, with its entry emptied of messages only
Pop_KeepHeader(m, k) ==
    [i \in DOMAIN m |->
        IF m[i].k = k THEN [k |-> k, v |-> [m[i].v EXCEPT !.messages = << >>]] ELSE m[i]]

Pop(m, k) == SelectSeq(m, LAMBDA kv : kv.k # k)
Values(m) == [i \in DOMAIN m |-> m[i].v]

(***************************************************************************)
(* The update steps of process_line, in the order of the code.             *)
(***************************************************************************)
\* variant: hostname and process are stored, the time is not
SetTime_HeaderOnly(entry, log_format) ==
    [entry EXCEPT !.hostname = log_format.hostname,
                  !.process = log_format.process]

\* entry.time/hostname/process = log_format.time/hostname/process
SetTime(entry, log_format) ==
    [entry EXCEPT !.time = log_format.time,
                  !.hostname = log_format.hostname,
                  !.process = log_format.process]

\* variants of the guard: without the flag, without the timestamp test, with
\* a test of the client field instead of the timestamp
FallbackGuard_NoFlag(entry, fallback) == entry.time = None
FallbackGuard_NoTimeTest(entry, fallback) == fallback
FallbackGuard_ClientTest(entry, fallback) == fallback /\ entry.client_hostname = ""

\* the guard of the three fallback branches
FallbackGuard(entry, fallback) == fallback /\ entry.time = None

\* variant: the client line sets the time fields only when none is set yet
UpdateClient_IfUnset(entry, log_format) ==
    IF log_format.client_hostname # ""
    THEN [(IF entry.time = None THEN SetTime(entry, log_format) ELSE entry) EXCEPT
            !.client_hostname = log_format.client_hostname,
            !.client_ip = log_format.client_ip]
    ELSE entry

UpdateClient(entry, log_format) ==
    IF log_format.client_hostname # ""
    THEN [SetTime(entry, log_format) EXCEPT
            !.client_hostname = log_format.client_hostname,
            !.client_ip = log_format.client_ip]
    ELSE entry

\* variant: the message-id is stored inside the fallback branch only
UpdateMessageId_InBranch(entry, log_format, fallback) ==
    IF log_format.message_id # "" /\ FallbackGuard(entry, fallback)
    THEN SetTime([entry EXCEPT !.message_id = log_format.message_id], log_format)
    ELSE entry

\* variant: the message-id step has no test of the line's message-id
UpdateMessageId_Unguarded(entry, log_format, fallback) ==
    LET e == [entry EXCEPT !.message_id = log_format.message_id]
    IN IF FallbackGuard(e, fallback) THEN SetTime(e, log_format) ELSE e

UpdateMessageId(entry, log_format, fallback) ==
    IF log_format.message_id # ""
    THEN LET e == [entry EXCEPT !.message_id = log_format.message_id]
         IN IF FallbackGuard(e, fallback) THEN SetTime(e, log_format) ELSE e
    ELSE entry

\* variant: the sender is stored inside the fallback branch only
UpdateFrom_InBranch(entry, log_format, fallback) ==
    IF log_format.from_addr # "" /\ FallbackGuard(entry, fallback)
    THEN SetTime([entry EXCEPT !.from_addr = log_format.from_addr], log_format)
    ELSE entry

\* variant: the fallback branch of the sender step stores the time alone
UpdateFrom_TimeOnly(entry, log_format, fallback) ==
    IF log_format.from_addr # ""
    THEN LET e == [entry EXCEPT !.from_addr = log_format.from_addr]
         IN IF FallbackGuard(e, fallback) THEN [e EXCEPT !.time = log_format.time] ELSE e
    ELSE entry

UpdateFrom(entry, log_format, fallback) ==
    IF log_format.from_addr # ""
    THEN LET e == [entry EXCEPT !.from_addr = log_format.from_addr]
         IN IF FallbackGuard(e, fallback) THEN SetTime(e, log_format) ELSE e
    ELSE entry

\* variant: entry.messages = [message]
UpdateTo_Replace(entry, log_format, fallback) ==
    IF log_format.to_addr # ""
    THEN LET message == Message(log_format.time, log_format.to_addr,
                                log_format.status, log_format.messages)
             e == [entry EXCEPT !.messages = << message >>]
         IN IF FallbackGuard(e, fallback) THEN SetTime(e, log_format) ELSE e
    ELSE entry

\* variant: the message takes the time of the entry
UpdateTo_EntryTime(entry, log_format, fallback) ==
    IF log_format.to_addr # ""
    THEN LET message == Message(entry.time, log_format.to_addr,
                                log_format.status, log_format.messages)
             e == [entry EXCEPT !.messages = Append(@, message)]
         IN IF FallbackGuard(e, fallback) THEN SetTime(e, log_format) ELSE e
    ELSE entry

\* variant: messages.insert(0, message)
UpdateTo_Prepend(entry, log_format, fallback) ==
    IF log_format.to_addr # ""
    THEN LET message == Message(log_format.time, log_format.to_addr,
                                log_format.status, log_format.messages)
             e == [entry EXCEPT !.messages = << message >> \o @]
         IN IF FallbackGuard(e, fallback) THEN SetTime(e, log_format) ELSE e
    ELSE entry

UpdateTo(entry, log_format, fallback) ==
    IF log_format.to_addr # ""
    THEN LET message == Message(log_format.time, log_format.to_addr,
                                log_format.status, log_format.messages)
             e == [entry EXCEPT !.messages = Append(@, message)]
         IN IF FallbackGuard(e, fallback) THEN SetTime(e, log_format) ELSE e
    ELSE entry

\* variant: if ... elif ... elif ... elif, the first step that applies runs alone
Fold_Exclusive(entry, log_format, fallback) ==
    IF log_format.client_hostname # "" THEN UpdateClient(entry, log_format)
    ELSE IF log_format.message_id # "" THEN UpdateMessageId(entry, log_format, fallback)
    ELSE IF log_format.from_addr # "" THEN UpdateFrom(entry, log_format, fallback)
    ELSE UpdateTo(entry, log_format, fallback)

\* the entry after the four update steps
Fold(entry, log_format, fallback) ==
    UpdateTo(UpdateFrom(UpdateMessageId(UpdateClient(entry, log_format),
                                        log_format, fallback),
                        log_format, fallback),
             log_format, fallback)

\* does one of the three fallback branches run while the line is folded in
FallbackRuns(entry, log_format, fallback) ==
    LET e1 == UpdateClient(entry, log_format)
        e2 == UpdateMessageId(e1, log_format, fallback)
        e3 == UpdateFrom(e2, log_format, fallback)
    IN \/ log_format.message_id # "" /\ FallbackGuard(e1, fallback)
       \/ log_format.from_addr # "" /\ FallbackGuard(e2, fallback)
       \/ log_format.to_addr # "" /\ FallbackGuard(e3, fallback)

\* the literal the raw tail is compared with
REMOVED == << Text("removed") >>

\* variant: log_format.messages.startswith("removed")
IsRemoved_Prefix(log_format) ==
    Len(log_format.messages) >= 1 /\ log_format.messages[1] = Text("removed")

IsRemoved(log_format) == log_format.messages = REMOVED

(***************************************************************************)
(* Input lines.  Three line headers: two with a timestamp that resolves    *)
(* (syslog form, ISO form with fraction) and one whose timestamp matches   *)
(* the pattern and is rejected by strptime ("Feb 30 10:00:00").            *)
(***************************************************************************)
QueueIds == {"Q1", "Q2"}

H1 == [time |-> TimeTok("%b %d %H:%M:%S", 0, 1, TRUE),
       hostname |-> "mx1", process |-> Some("postfix/smtpd[1827]")]
H2 == [time |-> TimeTok(TIME_FORMAT_ISO8601, 2023, 2, TRUE),
       hostname |-> "mx2", process |-> Some("postfix/qmgr[18719]")]
H3 == [time |-> TimeTok("%b %d %H:%M:%S", 0, 3, FALSE),
       hostname |-> "mx3", process |-> Some("postfix/cleanup[1695]")]

L(h, q, d) == Line(h.time, h.hostname, h.process, q, d)

ToDetails(r, st) == << To(r), Text(", relay=example.to[192.168.0.20]:25, "), Status(st), Text(" (250 OK)") >>
FromDetails(a) == << From(a), Text(", size=2140, nrcpt=1 (queue active)") >>

\* a complete transaction as in the repository's tests: client, message-id,
\* sender, two recipients, removed
LinesTransaction ==
    { L(H1, "Q1", << Client("c1.example.com", "127.0.0.1") >>),
      L(H1, "Q1", << MessageId("m1@example.info") >>),
      L(H1, "Q1", FromDetails("a1@example.info")),
      L(H2, "Q1", ToDetails("r1@example.to", "sent")),
      L(H2, "Q1", ToDetails("r2@example.to", "deferred")),
      L(H2, "Q1", REMOVED) }

\* incomplete logs: lines of every header, with and without a client line
LinesIncomplete ==
    { L(H1, "Q1", << Client("c1.example.com", "127.0.0.1") >>),
      L(H3, "Q1", << Client("c2.example.com", "127.0.0.2") >>),
      L(H1, "Q1", << MessageId("m1@example.info") >>),
      L(H3, "Q1", << MessageId("m2@example.info") >>),
      L(H2, "Q1", FromDetails("a1@example.info")),
      L(H3, "Q1", ToDetails("r1@example.to", "sent")),
      L(H3, "Q1", << Client("c2.example.com", "127.0.0.2"),
                     From("a2@example.info"),
                     To("r2@example.to"), Status("bounced") >>),
      L(H2, "Q1", REMOVED) }

\* lines that are dropped or carry no payload, and a line that carries all
LinesOdd ==
    { BlankLine,
      NoMatchLine,
      L(H1, "", << Text("connect from unknown[192.0.2.1]") >>),
      L(H2, "", REMOVED),
      L(H1, "Q1", << Text("sender non-delivery notification: JKL012") >>),
      L(H2, "Q1", << MessageId("") >>),
      L(H2, "Q1", FromDetails("")),
      L(H1, "Q1", FromDetails("a1@example.info")),
      L(H2, "Q1", FromDetails("a2@example.info")),
      L(H2, "Q1", << Client("c1.example.com", "127.0.0.1"),
                     MessageId("m1@example.info"),
                     From("a1@example.info"),
                     To("r1@example.to"), Status("sent") >>),
      L(H2, "Q1", << Text("removed"), Text(" by admin") >>),
      L(H1, "Q1", REMOVED) }

\* two transactions whose lines interleave; each id has its own values
LinesInterleaved ==
    { L(H1, "Q1", << Client("c1.example.com", "127.0.0.1") >>),
      L(H2, "Q1", ToDetails("r1@example.to", "sent")),
      L(H1, "Q1", REMOVED),
      L(H3, "Q2", FromDetails("a2@example.info")),
      L(H1, "Q2", ToDetails("r2@example.to", "deferred")),
      L(H3, "Q2", REMOVED) }

Corpora == {"transaction", "incomplete", "odd", "interleaved"}

Corpus(c) ==
    CASE c = "transaction" -> LinesTransaction
      [] c = "incomplete" -> LinesIncomplete
      [] c = "odd" -> LinesOdd
      [] OTHER -> LinesInterleaved

NoLine == [BlankLine EXCEPT !.shape = "none"]

(***************************************************************************)
(* State.                                                                  *)
(***************************************************************************)
VARIABLES
    corpus,             \* which input vocabulary the run reads
    use_fallback_time,  \* PostfixLogProcessor.use_fallback_time
    queue_map,          \* PostfixLogProcessor.queue_map
    op,                 \* the call made last
    again,              \* it was get_remaining_entries, and so was the call before it
    line,               \* its argument
    ret,                \* its return value
    fired,              \* it ran a fallback branch
    ended,              \* the history of the entry it removed, if it removed one
    nret,               \* per id: entries returned by process_line so far
    nrem,               \* per id: "removed" lines processed so far
    life,               \* per id: what the live entry has been fed since it was created
    emitted,            \* process_lines: the ids of the entries yielded so far, in order
    marks,              \* process_lines: the ids of the "removed" lines read so far, in order
    solo,               \* per id: the queue_map of a processor that is given the lines of that id only
    twin                \* the queue_map of a processor with the other value of use_fallback_time

vars == << corpus, use_fallback_time, queue_map, op, again, line, ret, fired,
           ended, nret, nrem, life, emitted, marks, solo, twin >>

\* what a parsed line carries
Carries(log_format) ==
    { k \in {"client", "message-id", "from", "to", "removed"} :
        \/ k = "client" /\ log_format.client_hostname # ""
        \/ k = "message-id" /\ log_format.message_id # ""
        \/ k = "from" /\ log_format.from_addr # ""
        \/ k = "to" /\ log_format.to_addr # ""
        \/ k = "removed" /\ log_format.messages = << Text("removed") >> }

\* the line order of a complete transaction
Script == << "client", "message-id", "from", "to", "removed" >>

\* history of a live entry since it was created:
\*   rcpt      the recipient lines fed to it, in order
\*   first     the timestamp of the first line with a message-id, sender or recipient
\*   firstres  the first resolved timestamp among those lines
\*   client    a client line was fed
\*   adopted   a fallback branch ran
\*   script    the lines fed, as long as they follow Script one by one
\*   onscript  they have followed Script so far
\*   headers   the (time, hostname, process) of the lines fed
\*   msgid     the message-id of the last line fed that has one
\*   sender    the sender of the last line fed that has one
NewLife ==
    [rcpt |-> << >>, first |-> None, firstres |-> None, client |-> FALSE,
     adopted |-> FALSE, script |-> << >>, onscript |-> TRUE, headers |-> {},
     msgid |-> "", sender |-> ""]

Header(x) == [time |-> x.time, hostname |-> x.hostname, process |-> x.process]

Feed(h, log_format, ran) ==
    LET carries == Carries(log_format) \cap {"message-id", "from", "to"} # {}
        follows == /\ h.onscript
                   /\ Len(h.script) < Len(Script)
                   /\ Carries(log_format) = { Script[Len(h.script) + 1] }
    IN [rcpt |-> IF "to" \in Carries(log_format)
                 THEN Append(h.rcpt, log_format) ELSE h.rcpt,
        first |-> IF h.first = None /\ carries
                  THEN Some(log_format.time) ELSE h.first,
        firstres |-> IF h.firstres = None /\ carries
                     THEN log_format.time ELSE h.firstres,
        client |-> h.client \/ "client" \in Carries(log_format),
        adopted |-> h.adopted \/ ran,
        script |-> IF follows THEN Append(h.script, log_format) ELSE << >>,
        onscript |-> follows,
        headers |-> h.headers \cup { Header(log_format) },
        msgid |-> IF log_format.message_id # "" THEN log_format.message_id ELSE h.msgid,
        sender |-> IF log_format.from_addr # "" THEN log_format.from_addr ELSE h.sender]

\* the line is a terminal-marker line of a transaction: it parses, has a
\* queue id and its raw tail is the literal "removed"
IsRemovedRecord(parsed) ==
    /\ parsed # None
    /\ parsed[1].queue_id # ""
    /\ parsed[1].messages = << Text("removed") >>

IsRemovedLine(l) == IsRemovedRecord(parse_line(l))

Init ==
    /\ corpus \in Corpora
    /\ use_fallback_time \in BOOLEAN
    /\ queue_map = << >>
    /\ op = "init"
    /\ again = FALSE
    /\ line = NoLine
    /\ ret = None
    /\ fired = FALSE
    /\ ended = None
    /\ nret = [q \in QueueIds |-> 0]
    /\ nrem = [q \in QueueIds |-> 0]
    /\ life = [q \in QueueIds |-> NewLife]
    /\ emitted = << >>
    /\ marks = << >>
    /\ solo = [q \in QueueIds |-> << >>]
    /\ twin = << >>

\* variant: a new entry takes the place of the dict
LookUp_Evict(m, queue_id) ==
    IF queue_id \notin Keys(m) THEN Put(<< >>, queue_id, PostfixLogEntry(queue_id)) ELSE m

\* if queue_id not in self.queue_map: self.queue_map[queue_id] = PostfixLogEntry(...)
LookUp(m, queue_id) ==
    IF queue_id \notin Keys(m) THEN Put(m, queue_id, PostfixLogEntry(queue_id)) ELSE m

\* the dict after the update steps on the entry of the line's queue id
Updated(m, log_format, fallback) ==
    Put(m, log_format.queue_id, Fold(Get(m, log_format.queue_id), log_format, fallback))

\* variant: a new entry of the id is handed back
Completed_Fresh(m, queue_id) == PostfixLogEntry(queue_id)

\* variant: the entry that has been in the dict longest is handed back
Completed_First(m, queue_id) == m[1].v

\* the completed entry handed back: queue_map.pop(queue_id)
Completed(m, queue_id) == Get(m, queue_id)

\* process_line on a processor of its own: the dict it is left with and what
\* it returns, m the dict after the update steps
Returned(m, log_format) ==
    [dict |-> IF IsRemoved(log_format) THEN Pop(m, log_format.queue_id) ELSE m,
     ret |-> IF IsRemoved(log_format) THEN Some(Completed(m, log_format.queue_id)) ELSE None]

Outcome(m, log_format, fallback) ==
    Returned(Updated(LookUp(m, log_format.queue_id), log_format, fallback), log_format)

\* what process_line makes of parsed on a processor with dict m
OutcomeOf(m, parsed, fallback) ==
    IF parsed = None \/ parsed[1].queue_id = ""
    THEN [dict |-> m, ret |-> None]
    ELSE Outcome(m, parsed[1], fallback)

\* the processors of the ids, each given the line if it has its id
Project(s, parsed, fallback) ==
    IF parsed = None \/ parsed[1].queue_id = ""
    THEN s
    ELSE [s EXCEPT ![parsed[1].queue_id] = Outcome(@, parsed[1], fallback).dict]

\* the history of the entry after the line
Fed(q, log_format, ran) ==
    Feed(IF q \in Keys(queue_map) THEN life[q] ELSE NewLife, log_format, ran)

\* the line is dropped: return None
Drop ==
    /\ ret' = None
    /\ fired' = FALSE
    /\ ended' = None
    /\ UNCHANGED << queue_map, nret, nrem, life >>

\* the terminal-marker check and the return, m the dict after the update steps
Return(m, queue_id, log_format, removed, h, ran) ==
    /\ Len(Get(m, queue_id).messages) <= MaxMsgs
    /\ removed => nrem[queue_id] < MaxRemoved
    /\ queue_map' = IF IsRemoved(log_format) THEN Pop(m, queue_id) ELSE m
    /\ ret' = IF IsRemoved(log_format) THEN Some(Completed(m, queue_id)) ELSE None
    /\ fired' = ran
    /\ nret' = IF ret' # None THEN [nret EXCEPT ![ret'[1].queue_id] = @ + 1] ELSE nret
    /\ nrem' = IF removed THEN [nrem EXCEPT ![queue_id] = @ + 1] ELSE nrem
    /\ life' = [life EXCEPT ![queue_id] = IF queue_id \in Keys(queue_map') THEN h ELSE NewLife]
    /\ ended' = IF queue_id \in Keys(queue_map') THEN None ELSE Some(h)

\* the line parsed to log_format, which has a queue id
Correlate(log_format, removed, ran) ==
    Return(Updated(LookUp(queue_map, log_format.queue_id), log_format, use_fallback_time),
           log_format.queue_id, log_format, removed,
           Fed(log_format.queue_id, log_format, ran), ran)

\* variant: without the test of the queue id
Handle_NoIdTest(parsed) ==
    IF parsed = None
    THEN Drop
    ELSE Correlate(parsed[1], IsRemovedRecord(parsed),
                   FallbackRuns(Get(LookUp(queue_map, parsed[1].queue_id), parsed[1].queue_id),
                                parsed[1], use_fallback_time))

Handle(parsed) ==
    IF parsed = None \/ parsed[1].queue_id = ""
    THEN Drop
    ELSE Correlate(parsed[1], IsRemovedRecord(parsed),
                   FallbackRuns(Get(LookUp(queue_map, parsed[1].queue_id), parsed[1].queue_id),
                                parsed[1], use_fallback_time))

process_line(l) ==
    /\ op' = "process_line"
    /\ again' = FALSE
    /\ line' = l
    /\ UNCHANGED << corpus, use_fallback_time >>
    /\ Handle(parse_line(l))

\* variant: the drained entries leave the dict
get_remaining_entries_Destructive ==
    /\ op' = "get_remaining_entries"
    /\ again' = (op = "get_remaining_entries")
    /\ line' = NoLine
    /\ ret' = Values(queue_map)
    /\ fired' = FALSE
    /\ ended' = None
    /\ queue_map' = << >>
    /\ UNCHANGED << corpus, use_fallback_time, nret, nrem, life, emitted, marks, solo, twin >>

get_remaining_entries ==
    /\ op' = "get_remaining_entries"
    /\ again' = (op = "get_remaining_entries")
    /\ line' = NoLine
    /\ ret' = Values(queue_map)
    /\ fired' = FALSE
    /\ ended' = None
    /\ UNCHANGED << corpus, use_fallback_time, queue_map, nret, nrem, life, emitted, marks, solo, twin >>

\* variant: the completed entry is put in front of what was yielded before
Yield_Front(out, completed_entry) ==
    IF completed_entry # None THEN << completed_entry[1].queue_id >> \o out ELSE out

\* if completed_entry: yield completed_entry
Yield(out, completed_entry) ==
    IF completed_entry # None THEN Append(out, completed_entry[1].queue_id) ELSE out

\* the "removed" lines of the input read so far
Marked(seen, l) == IF IsRemovedLine(l) THEN Append(seen, l.queue_id) ELSE seen

\* one turn of the loop of process_lines
ProcessLine ==
    \E l \in Corpus(corpus) :
        /\ process_line(l)
        /\ emitted' = Yield(emitted, ret')
        /\ marks' = Marked(marks, l)
        /\ solo' = Project(solo, parse_line(l), use_fallback_time)
        /\ twin' = OutcomeOf(twin, parse_line(l), ~use_fallback_time).dict

Next == ProcessLine \/ get_remaining_entries

Spec == Init /\ [][Next]_vars

(***************************************************************************)
(* The parser on its own: parse_line and _parse_time applied to lines and  *)
(* timestamp tokens of every kind.  The calls leave their argument in      *)
(* line and their result in ret.                                           *)
(***************************************************************************)
\* timestamp tokens TIME_REGEXP accepts: of each of the three forms, one that
\* strptime accepts and one it rejects ("Feb 30 10:00:00", a month 13, a
\* fraction of seven digits)
TimeToks ==
    { TimeTok("%b %d %H:%M:%S", 0, 1, TRUE),
      TimeTok("%b %d %H:%M:%S", 0, 3, FALSE),
      TimeTok(TIME_FORMAT_ISO8601, 2023, 2, TRUE),
      TimeTok(TIME_FORMAT_ISO8601, 2023, 4, FALSE),
      TimeTok(TIME_FORMAT_ISO8601_ALT, 2024, 5, TRUE),
      TimeTok(TIME_FORMAT_ISO8601_ALT, 2024, 6, FALSE) }

\* tokens _parse_time can be given besides: the empty one and one of no form
OtherToks == { EmptyTok, TimeTok("other", 0, 7, FALSE) }

Hostnames == { "", "mx1" }
Processes == { None, Some("postfix/smtpd[1827]") }

DetailTexts ==
    { << >>,
      REMOVED,
      << Text("connect from unknown[192.0.2.1]") >>,
      << Client("c1.example.com", "127.0.0.1") >>,
      << MessageId("") >>,
      << MessageId("m1@example.info") >>,
      FromDetails(""),
      FromDetails("a1@example.info"),
      << To("r1@example.to"), Text(", relay=none, delay=0.1") >>,
      ToDetails("r1@example.to", "sent"),
      << Text("warning: "), Client("c1.example.com", "127.0.0.1") >>,
      << Client("c1.example.com", "127.0.0.1"), MessageId(""),
         From("a1@example.info"), To("r1@example.to"), Status("sent") >> }

\* a line with neither queue id nor text ends in ": ", which strip() cuts: the
\* pattern rejects what is left, so such a line is not among the "log" lines
ParseLines ==
    { BlankLine, NoMatchLine } \cup
    { Line(t, h, p, "Q1", d) : t \in TimeToks, h \in Hostnames, p \in Processes,
                               d \in DetailTexts } \cup
    { Line(t, h, p, "", d) : t \in TimeToks, h \in Hostnames, p \in Processes,
                             d \in DetailTexts \ { << >> } }

InitParse ==
    /\ Init
    /\ corpus = "transaction"
    /\ ~use_fallback_time

CallParseLine ==
    \E l \in ParseLines :
        /\ op' = "parse_line"
        /\ line' = l
        /\ ret' = parse_line(l)
        /\ UNCHANGED << corpus, use_fallback_time, queue_map, again, fired, ended,
                        nret, nrem, life, emitted, marks, solo, twin >>

CallParseTime ==
    \E t \in TimeToks \cup OtherToks :
        /\ op' = "_parse_time"
        /\ line' = [NoLine EXCEPT !.time = t]
        /\ ret' = parse_time(t)
        /\ UNCHANGED << corpus, use_fallback_time, queue_map, again, fired, ended,
                        nret, nrem, life, emitted, marks, solo, twin >>

NextParse == CallParseLine \/ CallParseTime

SpecParse == InitParse /\ [][NextParse]_vars

(***************************************************************************)
(* Vocabulary of the properties.                                           *)
(***************************************************************************)
\* the last call was process_line on a line that parsed with queue id q
CallOn(q) ==
    /\ op = "process_line"
    /\ parse_line(line) # None
    /\ parse_line(line)[1].queue_id = q

\* the record the last call parsed (only used under CallOn)
LastRecord == parse_line(line)[1]

Live == Keys(queue_map)
Entry(q) == Get(queue_map, q)

\* the ids of the entries get_remaining_entries would return
Drained == { Values(queue_map)[i].queue_id : i \in DOMAIN Values(queue_map) }

\* the last call removed an entry and returned it
Emitted == op = "process_line" /\ ret # None /\ ended # None

(***************************************************************************)
(* C1 (as stated): whenever the last line processed for id X is a          *)
(* "removed" line, process_line has returned exactly one entry for X so    *)
(* far, the call on that line returned it, and X is not among the entries  *)
(* get_remaining_entries returns.                                          *)
(***************************************************************************)
C1_AsStated ==
    \A q \in QueueIds :
        (CallOn(q) /\ IsRemovedLine(line)) =>
            /\ nret[q] = 1
            /\ ret # None /\ ret[1].queue_id = q
            /\ q \notin Drained

(***************************************************************************)
(* C1 (amended): whenever the last line processed for id X is a "removed"  *)
(* line and no earlier line for X was one, process_line has returned       *)
(* exactly one entry for X so far, the call on that line returned it, and  *)
(* X is not among the entries get_remaining_entries returns.               *)
(***************************************************************************)
C1_RemovedEmitsOnce ==
    \A q \in QueueIds :
        (CallOn(q) /\ IsRemovedLine(line) /\ nrem[q] = 1) =>
            /\ nret[q] = 1
            /\ ret # None /\ ret[1].queue_id = q
            /\ q \notin Drained

\* a first "removed" line for X has closed an entry that had been fed two recipients
C1_Witness ==
    \E q \in QueueIds :
        /\ CallOn(q) /\ IsRemovedLine(line) /\ nrem[q] = 1
        /\ ret # None /\ Len(ret[1].messages) = 2

(***************************************************************************)
(* C2: when the lines fed to an entry are, in this order, a client line, a *)
(* message-id line, a sender line, a recipient line and a "removed" line,  *)
(* the first four calls return None and the fifth returns one entry with   *)
(* the id, the client hostname and ip of the client line, the message-id   *)
(* and sender of their lines and exactly one message with the recipient    *)
(* and the status of the recipient line.                                   *)
(***************************************************************************)
C2_Scenario ==
    /\ \A q \in Live :
          (CallOn(q) /\ life[q].onscript /\ Len(life[q].script) \in 1..4) => ret = None
    /\ (Emitted /\ ended[1].onscript) => Len(ended[1].script) = 5
    /\ (op = "process_line" /\ ended # None /\ ended[1].onscript
            /\ Len(ended[1].script) = 5) =>
          /\ Len(ret) = 1
          /\ LET r == ret[1]
                 sc == ended[1].script
             IN /\ r.queue_id = sc[1].queue_id
                /\ r.client_hostname = sc[1].client_hostname
                /\ r.client_ip = sc[1].client_ip
                /\ r.message_id = sc[2].message_id
                /\ r.from_addr = sc[3].from_addr
                /\ Len(r.messages) = 1
                /\ r.messages[1].to = sc[4].to_addr
                /\ r.messages[1].status = sc[4].status

\* the fifth call of the scenario has returned
C2_Witness ==
    /\ Emitted
    /\ ended[1].onscript
    /\ Len(ended[1].script) = 5
    /\ ret[1].client_ip # "" /\ ret[1].message_id # "" /\ ret[1].from_addr # ""

(***************************************************************************)
(* C3: the messages of an entry keep the order of the recipient lines: for *)
(* two recipient lines fed to an entry one before the other, the message   *)
(* of the first precedes the message of the second, in the live entry and  *)
(* in the entry process_line returns.                                      *)
(***************************************************************************)
AttemptOf(message, log_format) ==
    /\ message.to = log_format.to_addr
    /\ message.status = log_format.status
    /\ message.time = log_format.time

InOrder(messages, rcpt) ==
    \A i, j \in DOMAIN rcpt :
        i < j => \E a, b \in DOMAIN messages :
                    /\ a < b
                    /\ AttemptOf(messages[a], rcpt[i])
                    /\ AttemptOf(messages[b], rcpt[j])

C3_AttemptOrder ==
    /\ \A q \in Live : InOrder(Entry(q).messages, life[q].rcpt)
    /\ Emitted => InOrder(ret[1].messages, ended[1].rcpt)

\* an entry fed two different recipients has been returned
C3_Witness ==
    /\ Emitted
    /\ Len(ended[1].rcpt) = 2
    /\ ended[1].rcpt[1].to_addr # ended[1].rcpt[2].to_addr

(***************************************************************************)
(* C4: with use_fallback_time off, an entry that was fed no client line    *)
(* has time None, live or returned, whatever other lines it was fed.       *)
(***************************************************************************)
C4_NoFallbackNoTime ==
    ~use_fallback_time =>
        /\ \A q \in Live : ~life[q].client => Entry(q).time = None
        /\ (Emitted /\ ~ended[1].client) => ret[1].time = None

\* an entry fed a sender and a recipient with resolved timestamps, and no
\* client line, has been returned with the flag off
C4_Witness ==
    /\ ~use_fallback_time
    /\ Emitted
    /\ ~ended[1].client
    /\ ended[1].firstres # None
    /\ ret[1].from_addr # ""
    /\ ret[1].messages # << >> /\ ret[1].messages[1].time # None

(***************************************************************************)
(* C5 (as stated): with use_fallback_time on, the time of an entry that    *)
(* was fed no client line is the timestamp of the first line fed to it     *)
(* that carried a message-id, sender or recipient.                         *)
(***************************************************************************)
C5_AsStated ==
    use_fallback_time =>
        \A q \in Live :
            (~life[q].client /\ life[q].first # None) =>
                Entry(q).time = life[q].first[1]

(***************************************************************************)
(* C5 (amended): with use_fallback_time on, the time of an entry that was  *)
(* fed no client line is the first resolved timestamp among the lines fed  *)
(* to it that carried a message-id, sender or recipient, and None while    *)
(* there is none; live or returned.                                        *)
(***************************************************************************)
C5_FirstResolvedTime ==
    use_fallback_time =>
        /\ \A q \in Live : ~life[q].client => Entry(q).time = life[q].firstres
        /\ (Emitted /\ ~ended[1].client) => ret[1].time = ended[1].firstres

\* an entry without client line holds a time that differs from the
\* timestamp of a recipient line fed to it later
C5_Witness ==
    /\ use_fallback_time
    /\ \E q \in Live :
          /\ ~life[q].client
          /\ Entry(q).time # None
          /\ Entry(q).messages # << >>
          /\ Entry(q).messages[1].time # Entry(q).time

(***************************************************************************)
(* C6 (as stated): over the life of a live entry at most one process_line  *)
(* call runs a fallback branch: a call on an entry for which a fallback    *)
(* branch has run before runs none.                                        *)
(***************************************************************************)
C6_AsStated ==
    [][\A q \in QueueIds :
          (q \in Live /\ life[q].adopted /\ op' = "process_line"
              /\ parse_line(line') # None /\ parse_line(line')[1].queue_id = q) => ~fired']_vars

(***************************************************************************)
(* C6 (amended): a process_line call on an entry that holds a time other   *)
(* than None runs no fallback branch, unless the line is a client line     *)
(* with an unresolved timestamp, whose client step sets the time to None   *)
(* first.                                                                  *)
(***************************************************************************)
C6_NoAdoptionOverTime ==
    [][\A q \in QueueIds :
          (q \in Live /\ Entry(q).time # None /\ op' = "process_line"
              /\ parse_line(line') # None /\ parse_line(line')[1].queue_id = q /\ fired') =>
              /\ "client" \in Carries(parse_line(line')[1])
              /\ parse_line(line')[1].time = None]_vars

\* a line with a sender, recipient or message-id has been fed to an entry
\* that had adopted a fallback time, and ran no fallback branch
C6_Witness ==
    \E q \in Live :
        /\ use_fallback_time
        /\ CallOn(q)
        /\ ~fired
        /\ life[q].adopted
        /\ ~life[q].client
        /\ Entry(q).time # None
        /\ Carries(LastRecord) \cap {"message-id", "from", "to"} # {}

(***************************************************************************)
(* C7: after process_line has handled a client line for id X, the time,    *)
(* hostname, process, client_hostname and client_ip of X's entry are those *)
(* of the line, under both values of the flag and whatever they were.      *)
(***************************************************************************)
SameHeader(entry, log_format) ==
    /\ entry.time = log_format.time
    /\ entry.hostname = log_format.hostname
    /\ entry.process = log_format.process
    /\ entry.client_hostname = log_format.client_hostname
    /\ entry.client_ip = log_format.client_ip

C7_ClientOverwrites ==
    \A q \in QueueIds :
        (CallOn(q) /\ "client" \in Carries(LastRecord)) =>
            IF q \in Live THEN SameHeader(Entry(q), LastRecord)
            ELSE ret # None /\ SameHeader(ret[1], LastRecord)

\* a client line with an unresolved timestamp has been fed to an entry that
\* had adopted a fallback time
C7_Witness ==
    \E q \in Live :
        /\ CallOn(q)
        /\ "client" \in Carries(LastRecord)
        /\ life[q].adopted
        /\ LastRecord.time = None
        /\ Entry(q).message_id # ""

(***************************************************************************)
(* C8: a process_line call on a line with id X leaves every other id as it *)
(* was: it is in the dict after the call iff it was before, with the same  *)
(* entry.                                                                  *)
(***************************************************************************)
C8_OtherIdsUntouched ==
    [][(op' = "process_line" /\ parse_line(line') # None) =>
          \A y \in QueueIds \cup Keys(queue_map) \cup Keys(queue_map') :
              y # parse_line(line')[1].queue_id =>
                  /\ y \in Keys(queue_map) <=> y \in Keys(queue_map')
                  /\ y \in Keys(queue_map) => Get(queue_map', y) = Get(queue_map, y)]_vars

\* an entry has been returned while the entry of another id, which holds a
\* sender and a message, stays live
C8_Witness ==
    /\ Emitted
    /\ ret[1].messages # << >>
    /\ \E y \in Live :
          /\ y # ret[1].queue_id
          /\ Entry(y).from_addr # ""
          /\ Entry(y).messages # << >>

(***************************************************************************)
(* C9: get_remaining_entries leaves the dict as it is and returns the      *)
(* entry of every key and nothing else; called twice in a row it returns   *)
(* the same entries.                                                       *)
(***************************************************************************)
C9_DrainReadsOnly ==
    [][op' = "get_remaining_entries" =>
          /\ queue_map' = queue_map
          /\ Len(ret') = Cardinality(Keys(queue_map))
          /\ \A k \in Keys(queue_map) : \E i \in DOMAIN ret' : ret'[i] = Get(queue_map, k)
          /\ op = "get_remaining_entries" => ret' = ret]_vars

\* the second of two calls in a row has returned an entry that was fed a
\* sender line only
C9_Witness ==
    /\ op = "get_remaining_entries"
    /\ again
    /\ Len(ret) = 1
    /\ ret[1].from_addr # ""
    /\ ret[1].message_id = "" /\ ret[1].client_hostname = "" /\ ret[1].messages = << >>

(***************************************************************************)
(* C10: process_line returns an entry exactly when the line parses, has a  *)
(* queue id and its raw tail is "removed"; the entry has the line's id and *)
(* the id has left the dict; every other call returns None and removes no  *)
(* key.  No call returns more than one entry.                              *)
(***************************************************************************)
C10_ReturnsOnRemovedOnly ==
    [][op' = "process_line" =>
          /\ ret' # None <=> IsRemovedLine(line')
          /\ Len(ret') <= 1
          /\ ret' # None =>
                /\ ret'[1].queue_id = parse_line(line')[1].queue_id
                /\ parse_line(line')[1].queue_id \notin Keys(queue_map')
          /\ ret' = None => Keys(queue_map) \subseteq Keys(queue_map')]_vars

\* a line whose raw tail starts with "removed" and goes on has returned None
\* and left the entry in the dict
C10_Witness ==
    \E q \in Live :
        /\ CallOn(q)
        /\ Len(LastRecord.messages) = 2
        /\ LastRecord.messages[1] = Text("removed")
        /\ ret = None
        /\ Entry(q).from_addr # ""

(***************************************************************************)
(* C11: a process_line call on a blank line, on a line the pattern rejects *)
(* or on a matching line with an empty queue id returns None and leaves    *)
(* the dict as it was: the same keys in the same order, each with the same *)
(* entry, messages included.                                               *)
(***************************************************************************)
Dropped(l) == l.shape = "blank" \/ l.shape = "nomatch" \/ (l.shape = "log" /\ l.queue_id = "")

C11_DroppedLines ==
    [][(op' = "process_line" /\ Dropped(line')) =>
          /\ ret' = None
          /\ queue_map' = queue_map]_vars

\* a matching "removed" line with an empty queue id has been dropped while an
\* entry that holds a sender is live
C11_Witness ==
    /\ op = "process_line"
    /\ line.shape = "log" /\ line.queue_id = "" /\ line.details = REMOVED
    /\ ret = None
    /\ \E q \in Live : Entry(q).from_addr # ""

(***************************************************************************)
(* C12: the entries process_lines yields come in the order of the          *)
(* "removed" lines of the input: the ids yielded so far are the ids of the *)
(* "removed" lines read so far, one by one, whatever the order in which    *)
(* the entries were created or updated.                                    *)
(***************************************************************************)
C12_EmissionOrder == emitted = marks

\* of two entries the one created later has been yielded first
C12_Witness ==
    /\ Len(emitted) = 2
    /\ emitted[1] # emitted[2]
    /\ Emitted
    /\ ret[1].queue_id = emitted[2]
    /\ ret[1].client_hostname # ""
    /\ ret[1].messages # << >>

(***************************************************************************)
(* C13: an entry stays in the dict until a "removed" line for its id is    *)
(* processed: every call other than process_line on a "removed" line for   *)
(* id X leaves a live X in the dict; if the call is get_remaining_entries  *)
(* it returns X's entry, and if it is process_line it does not return X's  *)
(* entry.                                                                  *)
(***************************************************************************)
RemovedFor(l, q) == IsRemovedLine(l) /\ l.queue_id = q

C13_StaysResident ==
    [][\A q \in QueueIds :
          (q \in Keys(queue_map) /\ ~(op' = "process_line" /\ RemovedFor(line', q))) =>
              /\ q \in Keys(queue_map')
              /\ op' = "get_remaining_entries" =>
                    \E i \in DOMAIN ret' : ret'[i] = Get(queue_map', q)
              /\ op' = "process_line" => (ret' = None \/ ret'[1].queue_id # q)]_vars

\* get_remaining_entries has returned an entry with a message after the
\* entry of another id was yielded and that id was seen again
C13_Witness ==
    /\ op = "get_remaining_entries"
    /\ Len(emitted) >= 1
    /\ \E q \in Live :
          /\ \A i \in DOMAIN marks : marks[i] # q
          /\ Entry(q).messages # << >>
          /\ \E i \in DOMAIN ret : ret[i] = Entry(q)
          /\ \E y \in Live : y # q

(***************************************************************************)
(* C14: for every line the pattern accepts, parse_line returns a record    *)
(* whose hostname, process, queue_id, client_hostname, client_ip,          *)
(* message_id, from_addr, to_addr and status are the empty string when the *)
(* line has nothing for them, and whose raw tail is the text after the     *)
(* queue id, empty when there is none; the time is the one field that is   *)
(* None or a value.                                                        *)
(***************************************************************************)
\* the line has no token with this tag, or only with an empty value
Lacks(l, tag) == \A i \in DOMAIN l.details : l.details[i].tag = tag => l.details[i].a = ""

C14_EmptyNotNull ==
    (op = "parse_line" /\ line.shape = "log") =>
        /\ Len(ret) = 1
        /\ ret[1].time = None \/ ret[1].time = Some(ret[1].time[1])
        /\ ret[1].hostname = line.hostname
        /\ line.process = None => ret[1].process = ""
        /\ ret[1].queue_id = line.queue_id
        /\ ret[1].messages = line.details
        /\ Lacks(line, "client") => ret[1].client_hostname = "" /\ ret[1].client_ip = ""
        /\ Lacks(line, "message-id") => ret[1].message_id = ""
        /\ Lacks(line, "from") => ret[1].from_addr = ""
        /\ Lacks(line, "to") => ret[1].to_addr = "" /\ ret[1].status = ""
        /\ Lacks(line, "status") => ret[1].to_addr = "" /\ ret[1].status = ""

\* a line with nothing but a queue id and a timestamp that strptime rejects
\* has been parsed
C14_Witness ==
    /\ op = "parse_line"
    /\ line.shape = "log"
    /\ line.hostname = "" /\ line.process = None /\ line.queue_id # ""
    /\ line.details = << >>
    /\ ret # None
    /\ ret[1].time = None
    /\ ret[1].process = "" /\ ret[1].status = ""

(***************************************************************************)
(* C15: a line whose details are message-id=<> is parsed, and its          *)
(* message_id is the empty string, as is the message_id of a line the      *)
(* pattern accepts that has no message-id token.                           *)
(***************************************************************************)
HasToken(l, tag) == \E i \in DOMAIN l.details : l.details[i].tag = tag

C15_EmptyMessageId ==
    (op = "parse_line" /\ line.shape = "log") =>
        /\ line.details = << MessageId("") >> => ret # None /\ ret[1].message_id = ""
        /\ ~HasToken(line, "message-id") => ret # None /\ ret[1].message_id = ""

\* a line with queue id and the details message-id=<> has been parsed; its
\* raw tail is kept
C15_Witness ==
    /\ op = "parse_line"
    /\ line.shape = "log"
    /\ line.queue_id # ""
    /\ line.details = << MessageId("") >>
    /\ ret # None
    /\ ret[1].message_id = ""
    /\ ret[1].messages = << MessageId("") >>

(***************************************************************************)
(* C16: _parse_time returns None for the empty token; for any other token  *)
(* it returns what the first of three attempts that succeeds gives, in     *)
(* this order: the date-time form with fraction and offset, the date-time  *)
(* form with offset, the syslog form with the current year put in front;   *)
(* when none succeeds it returns None.  A token of a form that strptime    *)
(* accepts gives its instant, a syslog token in the current year; every    *)
(* other token gives None.                                                 *)
(***************************************************************************)
FirstSome(tries) ==
    IF \A i \in DOMAIN tries : tries[i] = None THEN None
    ELSE tries[CHOOSE i \in DOMAIN tries :
                  tries[i] # None /\ \A j \in 1..(i - 1) : tries[j] = None]

Attempts(t) ==
    << strptime(t, "%Y-%m-%dT%H:%M:%S.%f%z"),
       strptime(t, "%Y-%m-%dT%H:%M:%S%z"),
       strptime(PrependYear(t), "%Y %b %d %H:%M:%S") >>

C16_ResolverOrder ==
    op = "_parse_time" =>
        /\ Len(ret) <= 1
        /\ line.time = EmptyTok => ret = None
        /\ line.time # EmptyTok => ret = FirstSome(Attempts(line.time))
        /\ ~line.time.valid => ret = None
        /\ line.time.form = "other" => ret = None
        /\ (line.time.valid /\ line.time.form \in {"%Y-%m-%dT%H:%M:%S.%f%z", "%Y-%m-%dT%H:%M:%S%z"}) =>
              ret = Some([year |-> line.time.year, clock |-> line.time.clock])
        /\ (line.time.valid /\ line.time.form = "%b %d %H:%M:%S") =>
              ret = Some([year |-> CurrentYear, clock |-> line.time.clock])

\* a syslog token has been resolved in the current year, by the third attempt
C16_Witness ==
    /\ op = "_parse_time"
    /\ line.time.form = "%b %d %H:%M:%S"
    /\ ret = Some([year |-> CurrentYear, clock |-> line.time.clock])
    /\ Attempts(line.time)[1] = None /\ Attempts(line.time)[2] = None

(***************************************************************************)
(* C17: a line the pattern accepts whose timestamp does not resolve is     *)
(* parsed to the record of the same line with a resolved timestamp, but    *)
(* for the time, which is None; and process_line on it leaves the dict and *)
(* returns what it would for the same line with a resolved timestamp, but  *)
(* for the time of the entry and the time of the message the line adds.    *)
(***************************************************************************)
Unresolved(l) == l.shape = "log" /\ l.time # EmptyTok /\ parse_time(l.time) = None

\* the same line with digits strptime accepts
Twin(l) == [l EXCEPT !.time.valid = TRUE]

\* the entry without the timestamps a line with this record can store
NoTime(entry, log_format) ==
    [entry EXCEPT !.time = None,
                  !.messages = IF log_format.to_addr # "" /\ @ # << >>
                               THEN [@ EXCEPT ![Len(@)].time = None] ELSE @]

NoTimes(m, log_format) ==
    [i \in DOMAIN m |->
        IF m[i].k = log_format.queue_id
        THEN [k |-> m[i].k, v |-> NoTime(m[i].v, log_format)] ELSE m[i]]

\* the dict and the return value process_line gives on record log_format
AfterLine(m, log_format) ==
    [dict |-> IF IsRemoved(log_format) THEN Pop(m, log_format.queue_id) ELSE m,
     ret |-> IF IsRemoved(log_format)
             THEN << NoTime(Get(m, log_format.queue_id), log_format) >> ELSE None]

OnTwin(l) ==
    AfterLine(Updated(LookUp(queue_map, l.queue_id), parse_line(Twin(l))[1], use_fallback_time),
              parse_line(Twin(l))[1])

C17_UnresolvedStillProcessed ==
    [][(op' = "process_line" /\ Unresolved(line')) =>
          /\ parse_line(line') # None
          /\ parse_line(Twin(line'))[1].time # None
          /\ parse_line(line')[1] = [parse_line(Twin(line'))[1] EXCEPT !.time = None]
          /\ line'.queue_id # "" =>
                /\ NoTimes(queue_map', parse_line(line')[1]) = NoTimes(OnTwin(line').dict, parse_line(line')[1])
                /\ ret' = None <=> OnTwin(line').ret = None
                /\ ret' # None => << NoTime(ret'[1], parse_line(line')[1]) >> = OnTwin(line').ret]_vars

\* a recipient line whose timestamp does not resolve has added a message
\* without time to an entry that holds a time
C17_Witness ==
    \E q \in Live :
        /\ CallOn(q)
        /\ Unresolved(line)
        /\ LastRecord.to_addr # ""
        /\ Entry(q).time # None
        /\ Entry(q).messages[Len(Entry(q).messages)].time = None
        /\ Entry(q).messages[Len(Entry(q).messages)].to = LastRecord.to_addr

(***************************************************************************)
(* C18: with use_fallback_time on, an entry that was fed no client line    *)
(* and at least one line with a message-id, sender or recipient and a      *)
(* resolved timestamp has a time other than None when its "removed" line   *)
(* returns it.                                                             *)
(***************************************************************************)
C18_FallbackGivesTime ==
    (use_fallback_time /\ Emitted /\ ~ended[1].client /\ ended[1].firstres # None) =>
        ret[1].time # None

\* an entry without client line whose first line had a timestamp that does
\* not resolve has been returned with the time of a later line
C18_Witness ==
    /\ use_fallback_time
    /\ Emitted
    /\ ~ended[1].client
    /\ ended[1].first = Some(None)
    /\ ret[1].time # None
    /\ ret[1].messages # << >>

(***************************************************************************)
(* C19: every key of the dict maps to an entry whose queue_id is the key,  *)
(* no two entries of the dict have the same queue_id, and the queue_id of  *)
(* an entry that stays in the dict over a call is what it was.             *)
(***************************************************************************)
KeyIsId(m) == \A i \in DOMAIN m : m[i].v.queue_id = m[i].k

NoIdTwice(m) == \A i, j \in DOMAIN m : m[i].v.queue_id = m[j].v.queue_id => i = j

C19_IdStableUnique ==
    [][/\ KeyIsId(queue_map')
       /\ NoIdTwice(queue_map')
       /\ \A i \in DOMAIN queue_map : \A j \in DOMAIN queue_map' :
              queue_map[i].k = queue_map'[j].k =>
                  queue_map'[j].v.queue_id = queue_map[i].v.queue_id]_vars

\* two entries are live, each updated by lines of its own id, after an
\* earlier entry of one of the ids was returned
C19_Witness ==
    /\ Cardinality(Live) = 2
    /\ \A q \in Live : Entry(q).queue_id = q /\ Entry(q).messages # << >>
    /\ Len(emitted) >= 1

(***************************************************************************)
(* C20: the first line processed for a queue id that is not in the dict    *)
(* starts from an entry with the id and nothing else: after the call the   *)
(* entry is what the update steps make of that id-only entry, so every     *)
(* field the line has nothing for is at its default, and a line with no    *)
(* client, message-id, sender, recipient and not "removed" leaves the      *)
(* id-only entry in the dict.                                              *)
(***************************************************************************)
IdOnly(q) ==
    [time |-> << >>, hostname |-> "", process |-> "", queue_id |-> q,
     client_hostname |-> "", client_ip |-> "", message_id |-> "",
     from_addr |-> "", messages |-> << >>]

\* the entry of the line's id after the call, live or returned
EntryAfter(m, r, q) == IF q \in Keys(m) THEN Get(m, q) ELSE r[1]

FromIdOnly(e, log_format, fallback) ==
    /\ e = Fold(IdOnly(log_format.queue_id), log_format, fallback)
    /\ e.queue_id = log_format.queue_id
    /\ log_format.client_hostname = "" => e.client_hostname = "" /\ e.client_ip = ""
    /\ log_format.message_id = "" => e.message_id = ""
    /\ log_format.from_addr = "" => e.from_addr = ""
    /\ log_format.to_addr = "" => e.messages = << >>
    /\ log_format.to_addr # "" => Len(e.messages) = 1
    /\ (log_format.client_hostname = "" /\ (~fallback \/ Carries(log_format) \subseteq {"removed"})) =>
          e.time = << >> /\ e.hostname = "" /\ e.process = ""

C20_CreatedIdOnly ==
    [][(op' = "process_line" /\ parse_line(line') # None /\ line'.queue_id # ""
            /\ line'.queue_id \notin Keys(queue_map)) =>
          /\ FromIdOnly(EntryAfter(queue_map', ret', line'.queue_id), parse_line(line')[1], use_fallback_time)
          /\ Carries(parse_line(line')[1]) = {} =>
                /\ ret' = None
                /\ line'.queue_id \in Keys(queue_map')
                /\ Get(queue_map', line'.queue_id) = IdOnly(line'.queue_id)]_vars

\* a line with nothing but text has created an entry, which
\* get_remaining_entries then returned
C20_Witness ==
    /\ op = "get_remaining_entries"
    /\ ret = << IdOnly("Q1") >>
    /\ nrem["Q1"] = 0

(***************************************************************************)
(* C21: a process_line call on a line that carries more than one of        *)
(* client, message-id, sender and recipient applies the update of each:    *)
(* after the call the entry has the client hostname and ip, the time,      *)
(* hostname and process, the message-id and the sender of the line, as far *)
(* as the line carries them, and its last message is the line's recipient, *)
(* status, time and raw tail if the line carries a recipient.              *)
(***************************************************************************)
Payload(log_format) == Carries(log_format) \cap {"client", "message-id", "from", "to"}

Reflects(e, log_format) ==
    /\ "client" \in Carries(log_format) => SameHeader(e, log_format)
    /\ "message-id" \in Carries(log_format) => e.message_id = log_format.message_id
    /\ "from" \in Carries(log_format) => e.from_addr = log_format.from_addr
    /\ "to" \in Carries(log_format) =>
          /\ e.messages # << >>
          /\ e.messages[Len(e.messages)] =
                [time |-> log_format.time, to |-> log_format.to_addr,
                 status |-> log_format.status, message |-> log_format.messages]

C21_AllUpdatesApplied ==
    \A q \in QueueIds :
        (CallOn(q) /\ Cardinality(Payload(LastRecord)) >= 2) =>
            Reflects(EntryAfter(queue_map, ret, q), LastRecord)

\* a line with client, message-id, sender and recipient has been folded into
\* an entry created after an earlier entry of the id was returned
C21_Witness ==
    \E q \in Live :
        /\ CallOn(q)
        /\ Cardinality(Payload(LastRecord)) = 4
        /\ Reflects(Entry(q), LastRecord)
        /\ Len(Entry(q).messages) = 1
        /\ nrem[q] = 1

(***************************************************************************)
(* C22: the messages of an entry are, one for one and in order, the        *)
(* recipient lines processed for its id since it was created: message i    *)
(* has the time, recipient, status and raw tail of the i-th such line,     *)
(* under both values of the flag; lines without recipient add none.  This  *)
(* holds of every live entry and of the entry process_line returns.        *)
(***************************************************************************)
AttemptsOf(messages, rcpt) ==
    /\ Len(messages) = Len(rcpt)
    /\ \A i \in DOMAIN rcpt :
          /\ messages[i].time = rcpt[i].time
          /\ messages[i].to = rcpt[i].to_addr
          /\ messages[i].status = rcpt[i].status
          /\ messages[i].message = rcpt[i].messages

C22_OneAttemptPerRecipientLine ==
    /\ \A q \in Live : AttemptsOf(Entry(q).messages, life[q].rcpt)
    /\ Emitted => AttemptsOf(ret[1].messages, ended[1].rcpt)

\* an entry that took its time from a sender line has been returned with a
\* message whose time is that of its own line
C22_Witness ==
    /\ use_fallback_time
    /\ Emitted
    /\ ~ended[1].client
    /\ ret[1].from_addr # ""
    /\ Len(ret[1].messages) = 2
    /\ ret[1].time # None
    /\ ret[1].messages[2].time # None
    /\ ret[1].messages[2].time # ret[1].time

(***************************************************************************)
(* C23: over every call the messages a live entry had before the call are  *)
(* a prefix of the messages it has after it, each with the same time,      *)
(* recipient, status and raw tail; of the entry in the dict while it stays *)
(* there, and of the entry the call returns when it removes it.            *)
(***************************************************************************)
IsPrefix(a, b) == Len(a) <= Len(b) /\ \A i \in DOMAIN a : b[i] = a[i]

C23_AttemptsPrefix ==
    [][\A i \in DOMAIN queue_map :
          /\ \A j \in DOMAIN queue_map' :
                queue_map'[j].k = queue_map[i].k =>
                    IsPrefix(queue_map[i].v.messages, queue_map'[j].v.messages)
          /\ (op' = "process_line" /\ ret' # None /\ ret'[1].queue_id = queue_map[i].k) =>
                IsPrefix(queue_map[i].v.messages, ret'[1].messages)]_vars

\* a second recipient line has been folded into an entry and the message of
\* the first is in front of its message
C23_Witness ==
    \E q \in Live :
        /\ CallOn(q)
        /\ LastRecord.to_addr # ""
        /\ Len(Entry(q).messages) = 2
        /\ Entry(q).messages[1].to # Entry(q).messages[2].to
        /\ Entry(q).messages[2].to = LastRecord.to_addr

(***************************************************************************)
(* C24: a line whose raw tail is "removed" carries no client, message-id,  *)
(* sender or recipient, and process_line on such a line for an id that is  *)
(* in the dict returns the entry the dict held before the call, every      *)
(* field and message as it was.                                            *)
(***************************************************************************)
C24_RemovedReturnsAsWas ==
    [][(op' = "process_line" /\ IsRemovedLine(line')
            /\ line'.queue_id \in Keys(queue_map)) =>
          /\ Carries(parse_line(line')[1]) = {"removed"}
          /\ ret' = << Get(queue_map, line'.queue_id) >>]_vars

\* a "removed" line with another header than the entry's has returned an
\* entry with client, sender and a message
C24_Witness ==
    /\ Emitted
    /\ ret[1].client_hostname # ""
    /\ ret[1].from_addr # ""
    /\ ret[1].messages # << >>
    /\ ret[1].hostname # line.hostname

(***************************************************************************)
(* C25 (as stated): once a client line has been processed for a live       *)
(* entry, a process_line call on a line without client fields leaves the   *)
(* time, hostname and process of the entry as they were, under both values *)
(* of the flag.                                                            *)
(***************************************************************************)
C25_AsStated ==
    [][\A q \in QueueIds :
          (/\ q \in Keys(queue_map) /\ q \in Keys(queue_map')
           /\ life[q].client
           /\ op' = "process_line" /\ parse_line(line') # None
           /\ parse_line(line')[1].queue_id = q
           /\ parse_line(line')[1].client_hostname = "") =>
              /\ Get(queue_map', q).time = Get(queue_map, q).time
              /\ Get(queue_map', q).hostname = Get(queue_map, q).hostname
              /\ Get(queue_map', q).process = Get(queue_map, q).process]_vars

(***************************************************************************)
(* C26: the first line processed for id X after a "removed" line for X     *)
(* starts from nothing: after the call the entry of X has the message-id,  *)
(* sender and client fields of that line alone, one message if the line    *)
(* has a recipient and none otherwise, and a time, hostname and process    *)
(* that are at their defaults or the line's; if the line is a "removed"    *)
(* line again, the call returns an entry with only the id set.             *)
(***************************************************************************)
\* the call before was process_line on a "removed" line for q, or an entry of
\* q has been returned and q is not in the dict
AfterEmission(q) ==
    \/ op = "process_line" /\ RemovedFor(line, q)
    \/ nret[q] >= 1 /\ q \notin Keys(queue_map)

OfLineAlone(e, log_format) ==
    /\ e.queue_id = log_format.queue_id
    /\ e.client_hostname = log_format.client_hostname
    /\ e.client_ip = log_format.client_ip
    /\ e.message_id = log_format.message_id
    /\ e.from_addr = log_format.from_addr
    /\ Len(e.messages) = IF log_format.to_addr # "" THEN 1 ELSE 0
    /\ e.time = << >> \/ e.time = log_format.time
    /\ e.hostname = "" \/ e.hostname = log_format.hostname
    /\ e.process = "" \/ e.process = log_format.process

C26_FreshAfterEmission ==
    [][\A q \in QueueIds :
          (AfterEmission(q) /\ op' = "process_line" /\ parse_line(line') # None
              /\ parse_line(line')[1].queue_id = q) =>
              /\ OfLineAlone(EntryAfter(queue_map', ret', q), parse_line(line')[1])
              /\ RemovedFor(line', q) => ret' = << IdOnly(q) >>]_vars

\* a second "removed" line for an id has returned an entry with only the id
\* set
C26_Witness ==
    \E q \in QueueIds :
        /\ CallOn(q)
        /\ IsRemovedLine(line)
        /\ nret[q] = 2
        /\ ret = << IdOnly(q) >>
        /\ Len(emitted) = 2

(***************************************************************************)
(* C27: what process_line returns on a line with id X is what a processor  *)
(* with the same flag returns on it that has been given, of the lines read *)
(* so far, those with id X only, in the same order: an entry on the same   *)
(* lines, and the same entry.                                              *)
(***************************************************************************)
C27_PerIdProjection ==
    [][(op' = "process_line" /\ parse_line(line') # None
            /\ parse_line(line')[1].queue_id # "") =>
          ret' = Outcome(solo[parse_line(line')[1].queue_id], parse_line(line')[1],
                         use_fallback_time).ret]_vars

\* an entry with a message has been returned for one id while an entry of
\* the other id, created before it, is live; the processor of the first id
\* holds nothing, that of the other its entry alone
C27_Witness ==
    /\ Emitted
    /\ ret[1].messages # << >>
    /\ solo[ret[1].queue_id] = << >>
    /\ \E y \in Live :
          /\ y # ret[1].queue_id
          /\ solo[y] = << [k |-> y, v |-> Entry(y)] >>
          /\ Entry(y).messages # << >>
          /\ nret[y] >= 1

(***************************************************************************)
(* C30: a processor with the other value of use_fallback_time that is      *)
(* given the same lines has, after every line, the same keys in its dict,  *)
(* returns an entry on the same lines, and its entries, live and returned, *)
(* have the same queue_id, client_hostname, client_ip, message_id,         *)
(* from_addr and messages.                                                 *)
(***************************************************************************)
Agree(e, t) ==
    /\ e.queue_id = t.queue_id
    /\ e.client_hostname = t.client_hostname
    /\ e.client_ip = t.client_ip
    /\ e.message_id = t.message_id
    /\ e.from_addr = t.from_addr
    /\ e.messages = t.messages

KeyList(m) == [i \in DOMAIN m |-> m[i].k]

TwinRet(l) == OutcomeOf(twin, parse_line(l), ~use_fallback_time).ret

C30_FlagTouchesTimeOnly ==
    [][op' = "process_line" =>
          /\ KeyList(queue_map') = KeyList(twin')
          /\ \A i \in DOMAIN queue_map' : Agree(queue_map'[i].v, twin'[i].v)
          /\ ret' = None <=> TwinRet(line') = None
          /\ ret' # None => Agree(ret'[1], TwinRet(line')[1])]_vars

\* the two processors hold an entry with message-id and a message under
\* different times
C30_Witness ==
    \E q \in Live :
        /\ Entry(q).message_id # ""
        /\ Entry(q).messages # << >>
        /\ Get(twin, q).time # Entry(q).time
        /\ Get(twin, q).hostname # Entry(q).hostname

(***************************************************************************)
(* C28: the time, hostname and process of an entry come from one line: in  *)
(* every state each live entry has the three at their defaults (None, "",  *)
(* "") or equal to the time, hostname and process of one of the lines      *)
(* processed for its id since it was created; so does the entry            *)
(* process_line returns.                                                   *)
(***************************************************************************)
FromOneLine(e, headers) ==
    \/ Header(e) = [time |-> << >>, hostname |-> "", process |-> ""]
    \/ Header(e) \in headers

C28_HeaderFromOneLine ==
    /\ \A q \in Live : FromOneLine(Entry(q), life[q].headers)
    /\ Emitted => FromOneLine(ret[1], ended[1].headers)

\* an entry that was fed lines with three different headers holds the
\* header of one of them, which is not that of the line fed last
C28_Witness ==
    \E q \in Live :
        /\ CallOn(q)
        /\ Cardinality(life[q].headers) = 3
        /\ Header(Entry(q)) \in life[q].headers
        /\ Header(Entry(q)) # Header(LastRecord)

(***************************************************************************)
(* C29: message-id and sender are last-write-wins and never cleared: in    *)
(* every state the message-id (the sender) of a live entry, and of the     *)
(* entry process_line returns, is that of the last line processed for its  *)
(* id that has a non-empty one, or "" if there was none; and a             *)
(* process_line call on a line of a live id with an empty message-id and   *)
(* an empty sender, and no client and no recipient, leaves the entry's     *)
(* time, hostname and process as they were.                                *)
(***************************************************************************)
LastWrites ==
    /\ \A q \in Live :
          /\ Entry(q).message_id = life[q].msgid
          /\ Entry(q).from_addr = life[q].sender
    /\ Emitted =>
          /\ ret[1].message_id = ended[1].msgid
          /\ ret[1].from_addr = ended[1].sender

KeepsHeader ==
    \A q \in QueueIds :
        (/\ q \in Live
         /\ op' = "process_line"
         /\ parse_line(line') # None
         /\ parse_line(line')[1].queue_id = q
         /\ Carries(parse_line(line')[1]) \cap {"client", "message-id", "from", "to"} = {}) =>
            Header(EntryAfter(queue_map', ret', q)) = Header(Entry(q))

C29_LastWriteWins == [][KeepsHeader]_vars /\ []LastWrites

\* an entry that was given the message-id m1 and the senders a1 and then a2
\* has been fed message-id=<>: it holds m1 and a2
C29_Witness ==
    \E q \in Live :
        /\ use_fallback_time
        /\ CallOn(q)
        /\ line.details = << MessageId("") >>
        /\ Entry(q).message_id = "m1@example.info"
        /\ Entry(q).from_addr = "a2@example.info"
        /\ life[q].sender = "a2@example.info"

====
